---- MODULE Spec2Model ----
(***************************************************************************)
(* A model of the GFS -> Firebolt ingestion pipeline of                    *)
(* src/src/gfs_to_firebolt.py, and of the colouring of the sailing map of  *)
(* src/src/sailing_wind_map.py: the cycle resolver                         *)
(* (find_latest_available_cycle), the external-table bind                  *)
(* (create_firebolt_external_table), the pipeline driver (main) and the    *)
(* grid extractor (extract_wind_data_to_parquet).                          *)
(*                                                                         *)
(* Seven specifications share the module:                                  *)
(*   SpecResolver  one call of find_latest_available_cycle                 *)
(*   SpecBind      repeated calls of create_firebolt_external_table        *)
(*                 against one warehouse catalog                           *)
(*   SpecDriver    one run of main()                                       *)
(*   SpecRuns      successive successful runs of main() on one bucket,     *)
(*                 prefix and table                                        *)
(*   SpecExtractor one call of extract_wind_data_to_parquet                *)
(*   SpecLoader    one call of insert_from_external_table                  *)
(*   SpecSailing   one wind vector of the sailing map, from the query to   *)
(*                 its colour                                              *)
(***************************************************************************)
EXTENDS Integers, Sequences, FiniteSets, TLC

VARIABLES
    \* ---- find_latest_available_cycle
    rpc,              \* position: "start", "loop" or "returned" ("idle": not called)
    now_utc,          \* datetime.now(timezone.utc)
    dt,               \* the resolver's local dt
    candidate_cycle,  \* the resolver's local candidate_cycle (an int)
    iter,             \* completed iterations of `for _ in range(attempts)`
    probes,           \* the requests.get calls issued so far, in order
    failures,         \* the kinds of failure the probes met so far
    ret,              \* the returned (ymd, cycle_str, url), or NoValue
    \* ---- create_firebolt_external_table against a warehouse
    catalog,          \* external tables of the warehouse: a set of [name, url]
    calls,            \* the calls made so far, in order, with their outcomes
    \* ---- main
    pc,               \* position of main(), or how it ended
    mode,             \* "latest" (a date was omitted) or "range"
    start_dt, end_dt, start_cycle, end_cycle,
    cur_dt, cycle_int, forecast_hour,   \* the three loop variables
    disk,             \* the files of the working directory
    csv_paths,        \* main's list csv_paths
    up,               \* index of the next element of csv_paths to upload
    s3,               \* the objects of the bucket
    table,            \* the destination table: one entry per executed INSERT
    bound,            \* what create_firebolt_external_table returned: "none",
                      \* "true" or "false"
    log,              \* what the run did, in order
    failure,          \* the step whose exception ended the run, or "none"
    cleanupFailed,    \* the files whose os.remove failed inside cleanup
    \* ---- extract_wind_data_to_parquet
    xpc,              \* position: "opened", "merged", "stamped", "written" ("idle": not called)
    df_u, df_v,       \* the two component frames read from the dataset
    df,               \* the local df
    parquet,          \* the rows written to parquet_path
    \* ---- insert_from_external_table
    lpc,              \* position: "start", "loaded" or "raised" ("idle": not called)
    staged,           \* the rows the external table reads from the staged objects
    dest,             \* the rows of the destination table
    \* ---- sailing_wind_map.py
    spc,              \* position: "start", "fetched" or "rendered" ("idle": not run)
    heading_deg_math, \* ROUND(wind_heading_rad * 180 / pi()) of the table row
    desired_heading,  \* --desired-heading
    sail_row,         \* the row the query returned: wind_heading, heading_diff
    color             \* the colour of the vector drawn for the row

rvars == <<rpc, now_utc, dt, candidate_cycle, iter, probes, failures, ret>>
bvars == <<catalog, calls>>
loopvars == <<mode, start_dt, end_dt, start_cycle, end_cycle, cur_dt, cycle_int, forecast_hour>>
dvars == <<pc, loopvars, disk, csv_paths, up, s3, table, bound, log, failure, cleanupFailed>>
xvars == <<xpc, df_u, df_v, df, parquet>>
lvars == <<lpc, staged, dest>>
svars == <<spc, heading_deg_math, desired_heading, sail_row, color>>
vars == <<rvars, bvars, dvars, xvars, lvars, svars>>
\* what the resolver leaves alone
notResolver == <<bvars, dvars, xvars, lvars, svars>>
\* what the bind calls leave alone
notBind == <<rvars, dvars, xvars, lvars, svars>>
\* what main leaves alone (it shares the catalog)
notDriver == <<rvars, calls, xvars, lvars, svars>>
\* what the extractor leaves alone
notExtractor == <<rvars, bvars, dvars, lvars, svars>>
\* what the load leaves alone
notLoader == <<rvars, bvars, dvars, xvars, svars>>
\* what the sailing map leaves alone
notSailing == <<rvars, bvars, dvars, xvars, lvars>>

NoValue == [none |-> TRUE]

(***************************************************************************)
(* Bounds of the model.                                                    *)
(***************************************************************************)
\* The current date is one of the base dates plus 0..MaxDayOffset days.
MaxDayOffset == 1
\* create_firebolt_external_table is called at most MaxCalls times.
MaxCalls == 2

(***************************************************************************)
(* datetime: a naive calendar date with the minute of the day.             *)
(***************************************************************************)
IsLeap(y) == (y % 4 = 0 /\ y % 100 # 0) \/ y % 400 = 0

DaysInMonth(y, m) ==
    IF m = 2 THEN (IF IsLeap(y) THEN 29 ELSE 28)
    ELSE IF m \in {4, 6, 9, 11} THEN 30 ELSE 31

DateTime(y, m, d, minute) == [y |-> y, m |-> m, d |-> d, minute |-> minute]

\* dt - timedelta(days=1): the time of day is kept, the date borrows.
MinusOneDay(t) ==
    IF t.d > 1 THEN [t EXCEPT !.d = t.d - 1]
    ELSE IF t.m > 1 THEN [t EXCEPT !.m = t.m - 1, !.d = DaysInMonth(t.y, t.m - 1)]
    ELSE [t EXCEPT !.y = t.y - 1, !.m = 12, !.d = 31]

\* dt + timedelta(days=1)
PlusOneDay(t) ==
    IF t.d < DaysInMonth(t.y, t.m) THEN [t EXCEPT !.d = t.d + 1]
    ELSE IF t.m < 12 THEN [t EXCEPT !.m = t.m + 1, !.d = 1]
    ELSE [t EXCEPT !.y = t.y + 1, !.m = 1, !.d = 1]

RECURSIVE PlusDays(_, _)
PlusDays(t, n) == IF n = 0 THEN t ELSE PlusDays(PlusOneDay(t), n - 1)

\* t - timedelta(hours=h), for 0 <= h <= 24
MinusHours(t, h) ==
    IF t.minute >= 60 * h THEN [t EXCEPT !.minute = t.minute - 60 * h]
    ELSE [MinusOneDay(t) EXCEPT !.minute = t.minute + 1440 - 60 * h]

\* t.hour
HourOf(t) == t.minute \div 60

\* t.strftime('%Y%m%d'): the eight digits, read as a number
strftime_Ymd(t) == t.y * 10000 + t.m * 100 + t.d

\* f"{n:02d}": the digits of the string, most significant first
Format02d(n) == IF n < 100 THEN <<n \div 10, n % 10>> ELSE <<n \div 100, (n \div 10) % 10, n % 10>>

\* f"{n:03d}"
Format03d(n) == <<n \div 100, (n \div 10) % 10, n % 10>>

RECURSIVE ParseInt(_)
\* int(s) of a string of decimal digits
ParseInt(s) == IF Len(s) = 0 THEN 0 ELSE 10 * ParseInt(SubSeq(s, 1, Len(s) - 1)) + s[Len(s)]

\* gfs_nomads_url_for: the parts the f-string puts into the URL
gfs_nomads_url_for(datetime_ymd, cycle, resolution, fhour) ==
    [ymd |-> datetime_ymd, dir |-> cycle, file |-> cycle,
     resolution |-> resolution, f |-> Format03d(fhour)]

(***************************************************************************)
(* find_latest_available_cycle                                             *)
(***************************************************************************)
\* attempts = 6
attempts == 6

order == <<0, 6, 12, 18>>

\* order.index(cycle_int)
OrderIndex(cyc) == CHOOSE i \in 1..Len(order) : order[i] = cyc

\* A slip a rewrite could make: 00 steps to 18 without leaving the day.
previous_cycle_same_day(dt_utc, cyc) ==
    IF OrderIndex(cyc) = 1 THEN <<dt_utc, 18>>
    ELSE <<dt_utc, order[OrderIndex(cyc) - 1]>>

previous_cycle(dt_utc, cyc) ==
    IF OrderIndex(cyc) = 1 THEN <<MinusOneDay(dt_utc), 18>>
    ELSE <<dt_utc, order[OrderIndex(cyc) - 1]>>

\* Slips in the choice of the first candidate.
CandidateCycleStrict(hour) ==
    IF hour > 18 THEN 18 ELSE IF hour > 12 THEN 12 ELSE IF hour > 6 THEN 6 ELSE 0

\* candidate_cycle = 18 if hour >= 18 else 12 if hour >= 12 else 6 if hour >= 6 else 0
CandidateCycle(hour) ==
    IF hour >= 18 THEN 18 ELSE IF hour >= 12 THEN 12 ELSE IF hour >= 6 THEN 6 ELSE 0

\* timedelta(hours=2)
LagHours == 2

\* `for _ in range(attempts)` runs one more time.
LoopContinuesOneMore(i) == i <= attempts

\* the loop condition of `for _ in range(attempts)`
LoopContinues(i) == i < attempts

Resolution == "0p25"

\* What requests.get(url, stream=True, timeout=http_timeout) can do.
ProbeOutcomes == {"status_200", "status_other", "timeout", "transport_error"}

BaseDates == {DateTime(2023, 12, 31, 0), DateTime(2024, 2, 29, 0)}

NowSet ==
    {[PlusDays(b, k) EXCEPT !.minute = 30 * h] :
        b \in BaseDates, k \in 0..MaxDayOffset, h \in 0..47}

\* The call is entered at some current time; nothing else has happened.
ResolverInit ==
    /\ rpc = "start"
    /\ now_utc \in NowSet
    /\ dt = NoValue
    /\ candidate_cycle = 0
    /\ iter = 0
    /\ probes = <<>>
    /\ failures = {}
    /\ ret = NoValue
    /\ spc = "idle"
    /\ heading_deg_math = 0
    /\ desired_heading = 0
    /\ sail_row = NoValue
    /\ color = "none"
    /\ lpc = "idle"
    /\ staged = <<>>
    /\ dest = <<>>
    /\ xpc = "idle"
    /\ df_u = <<>> /\ df_v = <<>>
    /\ df = <<>>
    /\ parquet = <<>>
    /\ catalog = {}
    /\ calls = <<>>
    /\ pc = "idle"
    /\ mode = "none"
    /\ start_dt = NoValue /\ end_dt = NoValue
    /\ start_cycle = 0 /\ end_cycle = 0
    /\ cur_dt = NoValue /\ cycle_int = 0 /\ forecast_hour = 0
    /\ disk = {}
    /\ csv_paths = <<>>
    /\ up = 0
    /\ s3 = {}
    /\ table = <<>>
    /\ bound = "none"
    /\ log = <<>>
    /\ failure = "none"
    /\ cleanupFailed = {}

\* lines 66-70: base, hour, candidate_cycle, dt
ResolverStart ==
    /\ rpc = "start"
    /\ LET base == MinusHours(now_utc, LagHours)
       IN /\ dt' = base
          /\ candidate_cycle' = CandidateCycle(HourOf(base))
    /\ rpc' = "loop"
    /\ UNCHANGED <<now_utc, iter, probes, failures, ret, notResolver>>

\* a test that takes any answer of the server for an available cycle
AnyStatusReturns(outcome) == outcome \in {"status_200", "status_other"}

\* line 80: if resp.status_code == 200, reached only when requests.get did not raise
Status200Returns(outcome) == outcome = "status_200"

\* lines 73-89: one iteration of the loop, with the outcome of its probe
ResolverProbe(outcome) ==
    /\ rpc = "loop"
    /\ LoopContinues(iter)
    /\ LET ymd == strftime_Ymd(dt)
           cycle_str == Format02d(candidate_cycle)
           url == gfs_nomads_url_for(ymd, cycle_str, Resolution, 0)
       IN /\ probes' = Append(probes, [ymd |-> ymd, cycle |-> cycle_str, url |-> url,
                                       ok |-> (outcome = "status_200")])
          /\ IF Status200Returns(outcome)
             THEN /\ ret' = [ymd |-> ymd, cycle |-> cycle_str, url |-> url]
                  /\ rpc' = "returned"
                  /\ UNCHANGED <<dt, candidate_cycle, iter, failures>>
             ELSE /\ failures' = failures \cup {outcome}
                  /\ dt' = previous_cycle(dt, candidate_cycle)[1]
                  /\ candidate_cycle' = previous_cycle(dt, candidate_cycle)[2]
                  /\ iter' = iter + 1
                  /\ UNCHANGED <<ret, rpc>>
    /\ UNCHANGED <<now_utc, notResolver>>

\* lines 91-92: the loop ran out
ResolverExhausted ==
    /\ rpc = "loop"
    /\ ~LoopContinues(iter)
    /\ ret' = [ymd |-> strftime_Ymd(dt), cycle |-> Format02d(candidate_cycle),
               url |-> gfs_nomads_url_for(strftime_Ymd(dt), Format02d(candidate_cycle),
                                          Resolution, 0)]
    /\ rpc' = "returned"
    /\ UNCHANGED <<now_utc, dt, candidate_cycle, iter, probes, failures, notResolver>>

ResolverNext ==
    \/ ResolverStart
    \/ \E outcome \in ProbeOutcomes : ResolverProbe(outcome)
    \/ ResolverExhausted

SpecResolver == ResolverInit /\ [][ResolverNext]_vars

\* The resolver is sequential code and every probe has a timeout: it always takes
\* its next step.
SpecResolverFair == SpecResolver /\ WF_vars(ResolverNext)

(***************************************************************************)
(* create_firebolt_external_table                                          *)
(***************************************************************************)
\* DROP EXTERNAL TABLE IF EXISTS name, when the warehouse executes it
DropExternalTableIfExists(cat, name) == {e \in cat : e.name # name}

\* CREATE EXTERNAL TABLE IF NOT EXISTS name ... URL = url, when the warehouse
\* executes it: an existing table of that name is left as it is.
CreateExternalTableIfNotExists(cat, name, url) ==
    IF \E e \in cat : e.name = name THEN cat
    ELSE cat \cup {[name |-> name, url |-> url]}

\* What the environment and the warehouse can do during one call:
\*   creds  whether the access key pair is in the environment (line 191)
\*   drop   the drop statement (lines 217-227): executed, failed, or no cursor
\*   ddl    the create statement (lines 229-238): executed, failed, or no cursor
BindEnvs ==
    [creds : BOOLEAN, drop : {"ok", "fails", "no_cursor"}, ddl : {"ok", "fails", "no_cursor"}]

\* lines 217-227: the drop, whose every failure is swallowed
DropStep(cat, name, drop) ==
    IF drop = "ok" THEN DropExternalTableIfExists(cat, name) ELSE cat

\* The create statement without its `except`: a failing DDL propagates.
CreateStepUncaught(cat, name, url, ddl) ==
    IF ddl = "ok"
    THEN [catalog |-> CreateExternalTableIfNotExists(cat, name, url),
          result |-> TRUE, raised |-> FALSE]
    ELSE [catalog |-> cat, result |-> FALSE, raised |-> TRUE]

\* lines 229-239: the create statement; conn.cursor() is outside the try
CreateStep(cat, name, url, ddl) ==
    IF ddl = "no_cursor" THEN [catalog |-> cat, result |-> FALSE, raised |-> TRUE]
    ELSE IF ddl = "ok"
    THEN [catalog |-> CreateExternalTableIfNotExists(cat, name, url),
          result |-> TRUE, raised |-> FALSE]
    ELSE [catalog |-> cat, result |-> FALSE, raised |-> FALSE]

\* The whole function: the warehouse catalog after the call, the value returned
\* (FALSE when there is none) and whether the call raised instead of returning.
create_firebolt_external_table(cat, ext_table_name, s3_url, env) ==
    IF ~env.creds THEN [catalog |-> cat, result |-> FALSE, raised |-> TRUE]
    ELSE CreateStep(DropStep(cat, ext_table_name, env.drop), ext_table_name, s3_url, env.ddl)

ExtNames == {"ext_a", "ext_b"}
PrefixUrls == {"s3://bucket/A/", "s3://bucket/B/"}

\* A warehouse without external tables, before the first call.
BindInit ==
    /\ catalog = {}
    /\ calls = <<>>
    /\ rpc = "idle"
    /\ now_utc = NoValue
    /\ dt = NoValue
    /\ candidate_cycle = 0
    /\ iter = 0
    /\ probes = <<>>
    /\ failures = {}
    /\ ret = NoValue
    /\ spc = "idle"
    /\ heading_deg_math = 0
    /\ desired_heading = 0
    /\ sail_row = NoValue
    /\ color = "none"
    /\ lpc = "idle"
    /\ staged = <<>>
    /\ dest = <<>>
    /\ xpc = "idle"
    /\ df_u = <<>> /\ df_v = <<>>
    /\ df = <<>>
    /\ parquet = <<>>
    /\ pc = "idle"
    /\ mode = "none"
    /\ start_dt = NoValue /\ end_dt = NoValue
    /\ start_cycle = 0 /\ end_cycle = 0
    /\ cur_dt = NoValue /\ cycle_int = 0 /\ forecast_hour = 0
    /\ disk = {}
    /\ csv_paths = <<>>
    /\ up = 0
    /\ s3 = {}
    /\ table = <<>>
    /\ bound = "none"
    /\ log = <<>>
    /\ failure = "none"
    /\ cleanupFailed = {}

\* One call of the function, from its first line to its return or raise.
BindCall(name, url, env) ==
    /\ Len(calls) < MaxCalls
    /\ LET r == create_firebolt_external_table(catalog, name, url, env)
       IN /\ catalog' = r.catalog
          /\ calls' = Append(calls, [name |-> name, url |-> url, env |-> env,
                                     result |-> r.result, raised |-> r.raised])
    /\ UNCHANGED notBind

BindNext == \E name \in ExtNames, url \in PrefixUrls, env \in BindEnvs : BindCall(name, url, env)

SpecBind == BindInit /\ [][BindNext]_vars

(***************************************************************************)
(* main: the pipeline driver                                               *)
(***************************************************************************)
\* for forecast_hour in range(6)
Horizon == 6

\* the step of range(int(start_cycle), int(end_cycle), 6)
CycleStep == 6

\* os.remove can fail only on the files of the first FailUnits units of a run.
FailUnits == 1

\* The number of successive runs of main that are followed.
MaxRuns == 2

\* The number of grid points a decoded file can hold.
MaxKeys == 2

\* The number of rows the staged objects can hold.
MaxStaged == 2

\* Headings are taken every HeadingStep degrees, and one degree after every
\* second of those.
HeadingStep == 5

\* datetime.fromisoformat(f"{ymd[:4]}-{ymd[4:6]}-{ymd[6:8]}")
fromisoformat_Ymd(ymd) == DateTime(ymd \div 10000, (ymd \div 100) % 100, ymd % 100, 0)

\* a < b: a loop that stops one day short of the end date
DateLt(a, b) ==
    \/ a.y < b.y
    \/ a.y = b.y /\ a.m < b.m
    \/ a.y = b.y /\ a.m = b.m /\ a.d < b.d

\* a <= b of two datetimes at midnight
DateLeq(a, b) ==
    \/ a.y < b.y
    \/ a.y = b.y /\ a.m < b.m
    \/ a.y = b.y /\ a.m = b.m /\ a.d <= b.d

\* --start-date / --end-date when both are given
DateRanges ==
    {<<DateTime(2023, 12, 31, 0), DateTime(2023, 12, 31, 0)>>,
     <<DateTime(2023, 12, 31, 0), DateTime(2024, 1, 1, 0)>>,
     <<DateTime(2024, 2, 29, 0), DateTime(2024, 2, 28, 0)>>}

\* What find_latest_available_cycle can return to main.
ResolvedCycles ==
    {[ymd |-> strftime_Ymd(d), cycle |-> Format02d(order[i])] :
        d \in BaseDates, i \in 1..Len(order)}

\* --s3-bucket, --s3-key (with a trailing slash), --table, --ext-table-name
S3Bucket == "bucket"
S3KeyArg == [path |-> "stage", trailing_slash |-> TRUE]
TableName == "gfs_points"
\* ext_table = args.ext_table_name or f"ext_{args.table}_staged"
ExtTable == <<"ext_", TableName, "_staged">>

\* base = args.s3_key.rstrip('/')
S3Base == S3KeyArg.path
\* s3_url = f's3://{args.s3_bucket}/{base}/'
S3Url == [bucket |-> S3Bucket, prefix |-> S3Base]

\* tmp_name = f"./grib_{dt_str}_{cycle}_{args.resolution}_{forecast_hour}.grib2"
GribName(dt_str, cycle, fhour) ==
    [prefix |-> "grib_", stem |-> <<dt_str, cycle, Resolution, fhour>>, ext |-> "grib2"]

\* the index file cfgrib writes beside the GRIB file it opens: <tmp_name>.<hash>.idx
IdxName(dt_str, cycle, fhour) ==
    [prefix |-> "grib_", stem |-> <<dt_str, cycle, Resolution, fhour>>, ext |-> "idx"]

\* a file name that leaves the lead hour out
ParquetNameWithoutLeadHour(dt_str, cycle, fhour) ==
    [prefix |-> "", stem |-> <<dt_str, Format02d(ParseInt(cycle)), Format03d(0)>>,
     ext |-> "parquet"]

\* pq_filename = f"{date_part}_{hour_part}_{int(forecast_hour):03d}.parquet"
ParquetName(dt_str, cycle, fhour) ==
    [prefix |-> "", stem |-> <<dt_str, Format02d(ParseInt(cycle)), Format03d(fhour)>>,
     ext |-> "parquet"]

\* upload_key = f"{base}/{os.path.basename(parquet_path)}", in the bucket
UploadKey(parquet_path) == [bucket |-> S3Bucket, prefix |-> S3Base, name |-> parquet_path]

\* The unit the loops are at.
CurUnit == [date |-> strftime_Ymd(cur_dt), cycle |-> Format02d(cycle_int), fh |-> forecast_hour]

\* cleanup that forgets the index files
CleanupPatternsGribOnly == {[prefix |-> "grib_", ext |-> "grib2"]}

\* patterns = ['./grib_*.grib2', './grib_*.idx']
CleanupPatterns == {[prefix |-> "grib_", ext |-> "grib2"], [prefix |-> "grib_", ext |-> "idx"]}

\* glob.glob(pattern) in the working directory
Glob(files, pattern) == {f \in files : f.prefix = pattern.prefix /\ f.ext = pattern.ext}

\* The files cleanup_local_grib_files tries to remove.
CleanupTargets(files) == UNION {Glob(files, pat) : pat \in CleanupPatterns}

\* cleanup_local_grib_files: the directory afterwards, when os.remove raises for the
\* files of `failing` (each exception is swallowed)
cleanup_local_grib_files(files, failing) == files \ (CleanupTargets(files) \ failing)

\* A driver that ignores what the bind returned.
AfterBindAlwaysInsert(result) == "insert"

\* lines 380-388: `if create_firebolt_external_table(...)`, else cleanup and return
AfterBind(result) == IF result THEN "insert" ELSE "cleanup_early"

Event(op, what) == [op |-> op, what |-> what]

DriverInit ==
    /\ pc = "start"
    /\ mode = "none"
    /\ start_dt = NoValue /\ end_dt = NoValue
    /\ start_cycle = 0 /\ end_cycle = 0
    /\ cur_dt = NoValue /\ cycle_int = 0 /\ forecast_hour = 0
    /\ disk = {}
    /\ csv_paths = <<>>
    /\ up = 0
    /\ s3 = {}
    /\ table = <<>>
    /\ bound = "none"
    /\ log = <<>>
    /\ failure = "none"
    /\ cleanupFailed = {}
    /\ catalog = {}
    /\ calls = <<>>
    /\ rpc = "idle"
    /\ now_utc = NoValue
    /\ dt = NoValue
    /\ candidate_cycle = 0
    /\ iter = 0
    /\ probes = <<>>
    /\ failures = {}
    /\ ret = NoValue
    /\ spc = "idle"
    /\ heading_deg_math = 0
    /\ desired_heading = 0
    /\ sail_row = NoValue
    /\ color = "none"
    /\ lpc = "idle"
    /\ staged = <<>>
    /\ dest = <<>>
    /\ xpc = "idle"
    /\ df_u = <<>> /\ df_v = <<>>
    /\ df = <<>>
    /\ parquet = <<>>

untouchedByStart == <<disk, csv_paths, up, s3, table, bound, failure, cleanupFailed,
                      catalog, notDriver>>

\* lines 288-291: --latest-only prints the resolved cycle and returns
StartLatestOnly ==
    /\ pc = "start"
    /\ \E r \in ResolvedCycles : log' = Append(log, Event("resolve", r))
    /\ pc' = "returned_latest_only"
    /\ UNCHANGED <<loopvars, untouchedByStart>>

\* lines 293-295: --db or --engine missing; lines 321-326: dates that do not
\* parse, or end-date before start-date
StartExit1 ==
    /\ pc = "start"
    /\ \/ failure' = "no_db_or_engine"
       \/ failure' = "bad_date_format"
       \/ \E r \in DateRanges : ~DateLeq(r[1], r[2]) /\ failure' = "end_before_start"
    /\ pc' = "exit1"
    /\ UNCHANGED <<loopvars, log, disk, csv_paths, up, s3, table, bound, cleanupFailed, catalog, notDriver>>

\* an end that lets the loop over the runs go on to the run after the resolved one
end_cycle_two_runs(cyc) == cyc + 12

\* line 309: end_cycle = start_cycle + 6, the exclusive end for range()
end_cycle_of_latest(cyc) == cyc + 6

\* lines 300-309, 328-333: a date was omitted; only the resolved cycle is processed
StartLatest ==
    /\ pc = "start"
    /\ \E r \in ResolvedCycles :
        /\ log' = Append(log, Event("resolve", r))
        /\ start_dt' = fromisoformat_Ymd(r.ymd)
        /\ end_dt' = fromisoformat_Ymd(r.ymd)
        /\ cur_dt' = fromisoformat_Ymd(r.ymd)
        /\ start_cycle' = ParseInt(r.cycle)
        /\ end_cycle' = end_cycle_of_latest(ParseInt(r.cycle))
        /\ cycle_int' = ParseInt(r.cycle)
    /\ mode' = "latest"
    /\ forecast_hour' = 0
    /\ pc' = "download"
    /\ UNCHANGED untouchedByStart

\* lines 313-333: both dates given; all four cycles of every date
StartRange ==
    /\ pc = "start"
    /\ \E r \in DateRanges :
        /\ DateLeq(r[1], r[2])
        /\ start_dt' = r[1]
        /\ end_dt' = r[2]
        /\ cur_dt' = r[1]
    /\ start_cycle' = 0
    /\ end_cycle' = 24
    /\ cycle_int' = 0
    /\ mode' = "range"
    /\ forecast_hour' = 0
    /\ pc' = "download"
    /\ UNCHANGED <<log, untouchedByStart>>

\* A run that skips the unit whose download failed and goes on with the next.
AfterDownloadSkipsUnit(outcome) == IF outcome = "ok" THEN "extract" ELSE "remove_grib"

\* line 337: nothing in the loop catches what download_file raises, so the
\* exception leaves main
AfterDownload(outcome) == IF outcome = "ok" THEN "extract" ELSE "crashed"

\* lines 334-338: download_file(url, tmp_name). requests.get or raise_for_status
\* may raise before the file is opened; iter_content may raise after it was.
Download(outcome) ==
    /\ pc = "download"
    /\ LET u == CurUnit
           tmp_name == GribName(u.date, u.cycle, u.fh)
           url == gfs_nomads_url_for(u.date, u.cycle, Resolution, u.fh)
       IN /\ log' = Append(log, Event("download", [unit |-> u, url |-> url, outcome |-> outcome]))
          /\ disk' = IF outcome = "request_failed" THEN disk ELSE disk \cup {tmp_name}
    /\ pc' = AfterDownload(outcome)
    /\ failure' = IF outcome = "ok" THEN failure ELSE "download"
    /\ UNCHANGED <<loopvars, csv_paths, up, s3, table, bound, cleanupFailed,
                   catalog, notDriver>>

\* lines 341-347: extract_wind_data_to_parquet(tmp_name, pq_path, cycle,
\* forecast_hour), then csv_paths.append(pq_path). Opening the file with cfgrib
\* leaves its index file; a failed extraction may have left it too.
Extract(outcome) ==
    /\ pc = "extract"
    /\ LET u == CurUnit
           pq_path == ParquetName(u.date, u.cycle, u.fh)
           idx == IdxName(u.date, u.cycle, u.fh)
       IN /\ log' = Append(log, Event("extract", [unit |-> u, outcome |-> outcome]))
          /\ IF outcome = "ok"
             THEN /\ disk' = disk \cup {idx, pq_path}
                  /\ csv_paths' = Append(csv_paths, pq_path)
                  /\ pc' = "remove_grib"
                  /\ UNCHANGED failure
             ELSE /\ disk' = IF outcome = "failed_after_index" THEN disk \cup {idx} ELSE disk
                  /\ pc' = "crashed"
                  /\ failure' = "extract"
                  /\ UNCHANGED csv_paths
    /\ UNCHANGED <<loopvars, up, s3, table, bound, cleanupFailed, catalog, notDriver>>

\* a removal that never takes the file away
os_remove_keeps(files, path, removed) == files

\* lines 348-351: os.remove(tmp_name) inside try/except: the file is gone, or the
\* call raised and the file is where it was
os_remove(files, path, removed) == IF removed THEN files \ {path} ELSE files

\* lines 348-352 and the three loop headers: os.remove(tmp_name), whose failure
\* is swallowed, then the next unit, or the upload loop after the last one
RemoveGrib(removed) ==
    /\ pc = "remove_grib"
    /\ LET u == CurUnit
           tmp_name == GribName(u.date, u.cycle, u.fh)
       IN /\ removed \/ Len(csv_paths) <= FailUnits
          /\ disk' = os_remove(disk, tmp_name, removed)
          /\ log' = Append(log, Event("remove_grib", [file |-> tmp_name, removed |-> removed]))
    /\ IF forecast_hour + 1 < Horizon
       THEN /\ forecast_hour' = forecast_hour + 1
            /\ pc' = "download"
            /\ UNCHANGED <<cur_dt, cycle_int, up>>
       ELSE IF cycle_int + CycleStep < end_cycle
       THEN /\ cycle_int' = cycle_int + CycleStep
            /\ forecast_hour' = 0
            /\ pc' = "download"
            /\ UNCHANGED <<cur_dt, up>>
       ELSE /\ cur_dt' = PlusOneDay(cur_dt)
            /\ IF DateLeq(PlusOneDay(cur_dt), end_dt)
               THEN /\ cycle_int' = start_cycle
                    /\ forecast_hour' = 0
                    /\ pc' = "download"
                    /\ UNCHANGED up
               ELSE /\ pc' = "upload"
                    /\ up' = 1
                    /\ UNCHANGED <<cycle_int, forecast_hour>>
    /\ UNCHANGED <<mode, start_dt, end_dt, start_cycle, end_cycle, csv_paths, s3, table, bound,
                   failure, cleanupFailed, catalog, notDriver>>

\* an upload loop that walks the list from its end
parquet_path_reversed(paths, k) == paths[Len(paths) + 1 - k]

\* line 359: for parquet_path in csv_paths, at its k-th iteration
parquet_path_at(paths, k) == paths[k]

\* line 362: nothing catches what upload_file_to_s3 raises
AfterUpload(ok) == IF ok THEN "remove_parquet" ELSE "crashed"

\* lines 359-363: upload_file_to_s3(parquet_path, bucket, upload_key, region);
\* an upload that fails raises out of main
Upload(ok) ==
    /\ pc = "upload"
    /\ up <= Len(csv_paths)
    /\ LET parquet_path == parquet_path_at(csv_paths, up)
           key == UploadKey(parquet_path)
       IN /\ log' = Append(log, Event("upload", [key |-> key, ok |-> ok]))
          /\ s3' = IF ok THEN s3 \cup {key} ELSE s3
    /\ pc' = AfterUpload(ok)
    /\ failure' = IF ok THEN failure ELSE "upload"
    /\ UNCHANGED <<loopvars, disk, csv_paths, up, table, bound, cleanupFailed,
                   catalog, notDriver>>

\* lines 364-369: os.remove(parquet_path), whose failure is swallowed, then the
\* next path, or the connection after the last one
RemoveParquet(removed) ==
    /\ pc = "remove_parquet"
    /\ removed \/ up <= FailUnits
    /\ LET parquet_path == parquet_path_at(csv_paths, up)
       IN /\ disk' = IF removed THEN disk \ {parquet_path} ELSE disk
          /\ log' = Append(log, Event("remove_parquet",
                                     [file |-> parquet_path, removed |-> removed]))
    /\ up' = up + 1
    /\ pc' = IF up < Len(csv_paths) THEN "upload" ELSE "connect"
    /\ UNCHANGED <<loopvars, csv_paths, s3, table, bound, failure, cleanupFailed, catalog,
                   notDriver>>

\* What get_firebolt_connection_from_env can do (lines 146-173): return a
\* connection, or raise RuntimeError for one of its reasons.
ConnectOutcomes ==
    {"ok", "no_client_package", "no_account", "no_client_credentials", "connect_failed"}

\* line 372: conn = get_firebolt_connection_from_env(args.db, args.engine)
Connect(outcome) ==
    /\ pc = "connect"
    /\ log' = Append(log, Event("connect", outcome))
    /\ IF outcome = "ok"
       THEN pc' = "create_table" /\ UNCHANGED failure
       ELSE pc' = "crashed" /\ failure' = outcome
    /\ UNCHANGED <<loopvars, disk, csv_paths, up, s3, table, bound, cleanupFailed,
                   catalog, notDriver>>

\* a run that goes on to the bind though CREATE TABLE failed
AfterCreateTableGoesOn(ok) == "bind"

\* line 375: nothing catches what create_firebolt_table raises
AfterCreateTable(ok) == IF ok THEN "bind" ELSE "crashed"

\* line 375: create_firebolt_table(conn, args.table); try/finally without except
CreateTable(ok) ==
    /\ pc = "create_table"
    /\ log' = Append(log, Event("create_table", ok))
    /\ pc' = AfterCreateTable(ok)
    /\ failure' = IF ok THEN failure ELSE "create_table"
    /\ UNCHANGED <<loopvars, disk, csv_paths, up, s3, table, bound, cleanupFailed,
                   catalog, notDriver>>

\* line 380: create_firebolt_external_table(conn, ext_table, s3_url) and the
\* branch on what it returns
Bind(env) ==
    /\ pc = "bind"
    /\ LET r == create_firebolt_external_table(catalog, ExtTable, S3Url, env)
       IN /\ catalog' = r.catalog
          /\ log' = Append(log, Event("bind", [env |-> env, result |-> r.result,
                                               raised |-> r.raised]))
          /\ IF r.raised
             THEN /\ pc' = "crashed"
                  /\ failure' = IF env.creds THEN "bind" ELSE "no_storage_credentials"
                  /\ UNCHANGED bound
             ELSE /\ pc' = AfterBind(r.result)
                  /\ bound' = IF r.result THEN "true" ELSE "false"
                  /\ UNCHANGED failure
    /\ UNCHANGED <<loopvars, disk, csv_paths, up, s3, table, cleanupFailed, notDriver>>

\* The objects an external table over `url` with OBJECT_PATTERN '*.parquet' reads.
ObjectsUnder(url) ==
    {k \in s3 : k.bucket = url.bucket /\ k.prefix = url.prefix /\ k.name.ext = "parquet"}

\* line 382: insert_from_external_table(conn, args.table, ext_table); one INSERT
\* ... SELECT over the external table; try/finally without except
Insert(ok) ==
    /\ pc = "insert"
    /\ log' = Append(log, Event("insert", ok))
    /\ IF ok
       THEN /\ \E e \in catalog :
                /\ e.name = ExtTable
                /\ table' = Append(table, ObjectsUnder(e.url))
            /\ pc' = "drop_ext"
            /\ UNCHANGED failure
       ELSE /\ pc' = "crashed"
            /\ failure' = "insert"
            /\ UNCHANGED table
    /\ UNCHANGED <<loopvars, disk, csv_paths, up, s3, bound, cleanupFailed, catalog,
                   notDriver>>

\* lines 390-398: DROP EXTERNAL TABLE IF EXISTS, every failure swallowed
DropExt(outcome) ==
    /\ pc = "drop_ext"
    /\ catalog' = DropStep(catalog, ExtTable, outcome)
    /\ log' = Append(log, Event("drop_ext", outcome))
    /\ pc' = "cleanup"
    /\ UNCHANGED <<loopvars, disk, csv_paths, up, s3, table, bound, failure, cleanupFailed, notDriver>>

\* The GRIB and index files of the first FailUnits units of the run.
FirstUnitsFiles ==
    {f \in disk : \E i \in 1..FailUnits :
        /\ i <= Len(csv_paths)
        /\ f.prefix = "grib_"
        /\ ParquetName(f.stem[1], f.stem[2], f.stem[4]) = csv_paths[i]}

\* The sets of files whose os.remove may fail in one call of cleanup.
FailingSets(files) == SUBSET (CleanupTargets(files) \cap FirstUnitsFiles)

\* lines 385-388: the bind returned false; cleanup_local_grib_files(), return
CleanupAfterBindFailure ==
    /\ pc = "cleanup_early"
    /\ \E failing \in FailingSets(disk) :
        /\ disk' = cleanup_local_grib_files(disk, failing)
        /\ cleanupFailed' = failing
    /\ log' = Append(log, Event("cleanup", "after_bind_failure"))
    /\ pc' = "done"
    /\ UNCHANGED <<loopvars, csv_paths, up, s3, table, bound, failure, catalog, notDriver>>

\* lines 400-401: cleanup_local_grib_files() at the end of main
FinalCleanup ==
    /\ pc = "cleanup"
    /\ \E failing \in FailingSets(disk) :
        /\ disk' = cleanup_local_grib_files(disk, failing)
        /\ cleanupFailed' = failing
    /\ log' = Append(log, Event("cleanup", "final"))
    /\ pc' = "done"
    /\ UNCHANGED <<loopvars, csv_paths, up, s3, table, bound, failure, catalog, notDriver>>

DriverNext ==
    \/ StartLatestOnly
    \/ StartExit1
    \/ StartLatest
    \/ StartRange
    \/ \E outcome \in {"ok", "request_failed", "stream_failed"} : Download(outcome)
    \/ \E outcome \in {"ok", "failed", "failed_after_index"} : Extract(outcome)
    \/ \E removed \in BOOLEAN : RemoveGrib(removed)
    \/ \E ok \in BOOLEAN : Upload(ok)
    \/ \E removed \in BOOLEAN : RemoveParquet(removed)
    \/ \E outcome \in ConnectOutcomes : Connect(outcome)
    \/ \E ok \in BOOLEAN : CreateTable(ok)
    \/ \E env \in BindEnvs : Bind(env)
    \/ \E ok \in BOOLEAN : Insert(ok)
    \/ \E outcome \in {"ok", "fails", "no_cursor"} : DropExt(outcome)
    \/ CleanupAfterBindFailure
    \/ FinalCleanup

SpecDriver == DriverInit /\ [][DriverNext]_vars

(***************************************************************************)
(* main run again and again against the same bucket, prefix and table.     *)
(* Each run is a new process: its locals start afresh; the bucket, the     *)
(* warehouse and the working directory are as the run before left them.    *)
(***************************************************************************)
\* lines 272-298: main is entered again after a run that returned from its end
NextRun ==
    /\ pc = "done"
    /\ bound = "true"
    /\ Len(table) < MaxRuns
    /\ pc' = "start"
    /\ mode' = "none"
    /\ start_dt' = NoValue /\ end_dt' = NoValue
    /\ start_cycle' = 0 /\ end_cycle' = 0
    /\ cur_dt' = NoValue /\ cycle_int' = 0 /\ forecast_hour' = 0
    /\ csv_paths' = <<>>
    /\ up' = 0
    /\ bound' = "none"
    /\ log' = <<>>
    /\ failure' = "none"
    /\ cleanupFailed' = {}
    /\ UNCHANGED <<disk, s3, table, catalog, notDriver>>

\* Runs in which every step succeeds, the best-effort removals apart.
RunsNext ==
    \/ StartLatest
    \/ Download("ok")
    \/ Extract("ok")
    \/ RemoveGrib(TRUE)
    \/ Upload(TRUE)
    \/ RemoveParquet(TRUE)
    \/ Connect("ok")
    \/ CreateTable(TRUE)
    \/ \E env \in {e \in BindEnvs : e.creds /\ e.ddl = "ok"} : Bind(env)
    \/ Insert(TRUE)
    \/ \E outcome \in {"ok", "fails", "no_cursor"} : DropExt(outcome)
    \/ FinalCleanup
    \/ NextRun

SpecRuns == DriverInit /\ [][RunsNext]_vars

(***************************************************************************)
(* extract_wind_data_to_parquet (lines 107-123): the two wind components   *)
(* of a decoded file, joined on (latitude, longitude, time), stamped and   *)
(* written as parquet. A frame is the sequence of its rows.                *)
(***************************************************************************)
\* A float cell: NaN, or a number
NaN == <<>>
Float(v) == <<v>>

\* (latitude, longitude) of the grid points a decoded file can hold
GridPoints == <<<<1, 0>>, <<0, 1>>, <<0, 0>>, <<1, 1>>>>

\* The time coordinate of the decoded file.
ValidTime == DateTime(2023, 12, 31, 360)

GridKeys == {<<GridPoints[i][1], GridPoints[i][2], ValidTime>> : i \in 1..MaxKeys}

\* Wind components in m/s; a calm component is 0.
WindValues == {0, 7}

KeyOf(row) == <<row.latitude, row.longitude, row.time>>

\* pandas sorts the key columns one after the other
KeyLess(a, b) ==
    \/ a[1] < b[1]
    \/ a[1] = b[1] /\ a[2] < b[2]
    \/ a[1] = b[1] /\ a[2] = b[2] /\
        strftime_Ymd(a[3]) * 1440 + a[3].minute < strftime_Ymd(b[3]) * 1440 + b[3].minute

RECURSIVE SortKeys(_)
SortKeys(S) ==
    IF S = {} THEN <<>>
    ELSE LET m == CHOOSE k \in S : \A o \in S \ {k} : KeyLess(k, o)
         IN <<m>> \o SortKeys(S \ {m})

\* line 115: ds['u10'].to_dataframe().reset_index()[[latitude, longitude, time,
\* u10]]: one row per coordinate of the variable
FrameU(f) ==
    LET ks == SortKeys(DOMAIN f)
    IN [i \in 1..Len(ks) |->
          [latitude |-> ks[i][1], longitude |-> ks[i][2], time |-> ks[i][3],
           u10 |-> Float(f[ks[i]])]]

\* line 116: the same for v10
FrameV(f) ==
    LET ks == SortKeys(DOMAIN f)
    IN [i \in 1..Len(ks) |->
          [latitude |-> ks[i][1], longitude |-> ks[i][2], time |-> ks[i][3],
           v10 |-> Float(f[ks[i]])]]

\* The component frames a decoded file can give: any set of grid points, any values.
FramesU == UNION {{FrameU(f) : f \in [K -> WindValues]} : K \in SUBSET GridKeys}
FramesV == UNION {{FrameV(f) : f \in [K -> WindValues]} : K \in SUBSET GridKeys}

KeysOfFrame(frame) == {KeyOf(frame[i]) : i \in DOMAIN frame}

RowOf(frame, k) == frame[CHOOSE i \in DOMAIN frame : KeyOf(frame[i]) = k]

\* The join as how='inner' would make it: only the keys both frames have
merge_inner(left, right) ==
    LET ks == SortKeys(KeysOfFrame(left) \cap KeysOfFrame(right))
    IN [i \in 1..Len(ks) |->
          [latitude |-> ks[i][1], longitude |-> ks[i][2], time |-> ks[i][3],
           u10 |-> RowOf(left, ks[i]).u10, v10 |-> RowOf(right, ks[i]).v10]]

\* line 117: pd.merge_ordered(df_u, df_v, on=['latitude', 'longitude', 'time']),
\* with its defaults how='outer' and fill_method=None: the keys of either frame,
\* in key order, NaN where a frame has no row for the key. Each frame has one row
\* per key.
merge_ordered(left, right) ==
    LET ks == SortKeys(KeysOfFrame(left) \cup KeysOfFrame(right))
    IN [i \in 1..Len(ks) |->
          [latitude |-> ks[i][1], longitude |-> ks[i][2], time |-> ks[i][3],
           u10 |-> IF ks[i] \in KeysOfFrame(left) THEN RowOf(left, ks[i]).u10 ELSE NaN,
           v10 |-> IF ks[i] \in KeysOfFrame(right) THEN RowOf(right, ks[i]).v10 ELSE NaN]]

\* line 118: df['time'].dt.date.astype(str), the parts of 'YYYY-MM-DD'
date_str(t) == <<t.y, t.m, t.d>>

\* the cycle and forecast_hour arguments main passes
CycleArgs == {<<0, 0>>, <<1, 8>>}
ForecastHourArgs == {0, 5}

\* lines 111-116: the file is open and the two component frames are read
ExtractorInit ==
    /\ xpc = "opened"
    /\ df_u \in FramesU
    /\ df_v \in FramesV
    /\ df = <<>>
    /\ parquet = <<>>
    /\ rpc = "idle"
    /\ now_utc = NoValue
    /\ dt = NoValue
    /\ candidate_cycle = 0
    /\ iter = 0
    /\ probes = <<>>
    /\ failures = {}
    /\ ret = NoValue
    /\ spc = "idle"
    /\ heading_deg_math = 0
    /\ desired_heading = 0
    /\ sail_row = NoValue
    /\ color = "none"
    /\ lpc = "idle"
    /\ staged = <<>>
    /\ dest = <<>>
    /\ catalog = {}
    /\ calls = <<>>
    /\ pc = "idle"
    /\ mode = "none"
    /\ start_dt = NoValue /\ end_dt = NoValue
    /\ start_cycle = 0 /\ end_cycle = 0
    /\ cur_dt = NoValue /\ cycle_int = 0 /\ forecast_hour = 0
    /\ disk = {}
    /\ csv_paths = <<>>
    /\ up = 0
    /\ s3 = {}
    /\ table = <<>>
    /\ bound = "none"
    /\ log = <<>>
    /\ failure = "none"
    /\ cleanupFailed = {}

\* line 117
MergeOrdered ==
    /\ xpc = "opened"
    /\ df' = merge_ordered(df_u, df_v)
    /\ xpc' = "merged"
    /\ UNCHANGED <<df_u, df_v, parquet, notExtractor>>

\* lines 118-121: obs_date, obs_hour = int(cycle), forecast_hour, and the rename
\* of u10, v10 to wind_u, wind_v
StampColumns(cyc, fhour) ==
    /\ xpc = "merged"
    /\ df' = [i \in DOMAIN df |->
                [latitude |-> df[i].latitude, longitude |-> df[i].longitude,
                 time |-> df[i].time, obs_date |-> date_str(df[i].time),
                 obs_hour |-> ParseInt(cyc), forecast_hour |-> fhour,
                 wind_u |-> df[i].u10, wind_v |-> df[i].v10]]
    /\ xpc' = "stamped"
    /\ UNCHANGED <<df_u, df_v, parquet, notExtractor>>

\* line 123: the seven columns written with to_parquet(parquet_path, index=False)
ToParquet ==
    /\ xpc = "stamped"
    /\ parquet' = [i \in DOMAIN df |->
                     [latitude |-> df[i].latitude, longitude |-> df[i].longitude,
                      obs_date |-> df[i].obs_date, obs_hour |-> df[i].obs_hour,
                      forecast_hour |-> df[i].forecast_hour,
                      wind_u |-> df[i].wind_u, wind_v |-> df[i].wind_v]]
    /\ xpc' = "written"
    /\ UNCHANGED <<df_u, df_v, df, notExtractor>>

ExtractorNext ==
    \/ MergeOrdered
    \/ \E cyc \in CycleArgs, fhour \in ForecastHourArgs : StampColumns(cyc, fhour)
    \/ ToParquet

SpecExtractor == ExtractorInit /\ [][ExtractorNext]_vars

(***************************************************************************)
(* insert_from_external_table (lines 242-260): one INSERT ... SELECT over  *)
(* the external table. A cell is NaN (SQL NULL) or Float(v); a staged row  *)
(* has the seven columns of the external table.                            *)
(***************************************************************************)
\* COALESCE(x, d)
coalesce(x, d) == IF x = NaN THEN Float(d) ELSE x

\* TRY_CAST(obs_date AS TIMESTAMP) of the parts of 'YYYY-MM-DD': midnight of the
\* date, or NULL when the text names no date
try_cast_timestamp(text) ==
    IF text[2] \in 1..12 /\ text[3] \in 1..DaysInMonth(text[1], text[2])
    THEN Float(DateTime(text[1], text[2], text[3], 0))
    ELSE NaN

\* DATE_ADD('hour', h, ts) for h >= 0; NULL when ts is NULL
date_add_hour(h, ts) ==
    IF ts = NaN THEN NaN
    ELSE LET total == ts[1].minute + 60 * h
         IN Float([PlusDays(ts[1], total \div 1440) EXCEPT !.minute = total % 1440])

\* sqrt of a perfect square (the staged components are chosen to give one)
sqrt(n) == CHOOSE root \in 0..n : root * root = n

\* sqrt((wind_u)*(wind_u) + (wind_v)*(wind_v)); NULL when a component is NULL
wind_speed_of(u, v) ==
    IF u = NaN \/ v = NaN THEN NaN ELSE Float(sqrt(u[1] * u[1] + v[1] * v[1]))

\* atan2(wind_v, wind_u), kept as the pair of its arguments
atan2(y, x) == IF y = NaN \/ x = NaN THEN NaN ELSE Float([atan2_y |-> y[1], atan2_x |-> x[1]])

\* a point written latitude first
geography_lat_lon(longitude, latitude) == [srid |-> 4326, point |-> <<latitude, longitude>>]

\* CAST(CONCAT('SRID=4326;POINT(', longitude, ' ', latitude, ')') AS GEOGRAPHY)
geography(longitude, latitude) == [srid |-> 4326, point |-> <<longitude, latitude>>]

\* lines 246-253: the SELECT list, for one row of the external table
select_row(r) ==
    [forecast_ts |-> date_add_hour(coalesce(r.obs_hour, 0)[1] + coalesce(r.forecast_hour, 0)[1],
                                   try_cast_timestamp(r.obs_date)),
     wind_u |-> r.wind_u,
     wind_v |-> r.wind_v,
     wind_speed |-> wind_speed_of(r.wind_u, r.wind_v),
     wind_heading_rad |-> atan2(r.wind_v, r.wind_u),
     location |-> geography(r.longitude, r.latitude)]

\* Rows the staged objects can hold: two grid points with their dates, run and
\* lead hours (present or NULL, up to the turn of a day), and wind components
\* (present or NULL).
StagedPoints ==
    {[latitude |-> 40, longitude |-> -75, obs_date |-> <<2024, 1, 1>>],
     [latitude |-> -33, longitude |-> 151, obs_date |-> <<2023, 12, 31>>]}
StagedHours ==
    {[obs_hour |-> Float(0), forecast_hour |-> Float(3)],
     [obs_hour |-> Float(18), forecast_hour |-> Float(6)],
     [obs_hour |-> NaN, forecast_hour |-> Float(5)]}
StagedWinds ==
    {[wind_u |-> Float(3), wind_v |-> Float(4)],
     [wind_u |-> Float(0), wind_v |-> Float(0)],
     [wind_u |-> NaN, wind_v |-> Float(-8)]}
StagedRows ==
    {[latitude |-> p.latitude, longitude |-> p.longitude, obs_date |-> p.obs_date,
      obs_hour |-> h.obs_hour, forecast_hour |-> h.forecast_hour,
      wind_u |-> w.wind_u, wind_v |-> w.wind_v] :
        p \in StagedPoints, h \in StagedHours, w \in StagedWinds}

\* The external table is bound and the destination table exists and is empty.
LoaderInit ==
    /\ lpc = "start"
    /\ staged \in UNION {[1..n -> StagedRows] : n \in 0..MaxStaged}
    /\ dest = <<>>
    /\ rpc = "idle"
    /\ now_utc = NoValue
    /\ dt = NoValue
    /\ candidate_cycle = 0
    /\ iter = 0
    /\ probes = <<>>
    /\ failures = {}
    /\ ret = NoValue
    /\ spc = "idle"
    /\ heading_deg_math = 0
    /\ desired_heading = 0
    /\ sail_row = NoValue
    /\ color = "none"
    /\ xpc = "idle"
    /\ df_u = <<>> /\ df_v = <<>>
    /\ df = <<>>
    /\ parquet = <<>>
    /\ catalog = {}
    /\ calls = <<>>
    /\ pc = "idle"
    /\ mode = "none"
    /\ start_dt = NoValue /\ end_dt = NoValue
    /\ start_cycle = 0 /\ end_cycle = 0
    /\ cur_dt = NoValue /\ cycle_int = 0 /\ forecast_hour = 0
    /\ disk = {}
    /\ csv_paths = <<>>
    /\ up = 0
    /\ s3 = {}
    /\ table = <<>>
    /\ bound = "none"
    /\ log = <<>>
    /\ failure = "none"
    /\ cleanupFailed = {}

\* lines 255-259: cur.execute(insert_stmt) inside try/finally: every row the
\* external table reads is selected and inserted, or the statement raises and
\* nothing is inserted
InsertFromExternalTable(ok) ==
    /\ lpc = "start"
    /\ IF ok
       THEN /\ dest' = dest \o [i \in 1..Len(staged) |-> select_row(staged[i])]
            /\ lpc' = "loaded"
       ELSE /\ lpc' = "raised"
            /\ UNCHANGED dest
    /\ UNCHANGED <<staged, notLoader>>

LoaderNext == \E ok \in BOOLEAN : InsertFromExternalTable(ok)

SpecLoader == LoaderInit /\ [][LoaderNext]_vars

(***************************************************************************)
(* sailing_wind_map.py: the query of fetch_sailing_wind_data (lines 60-68)  *)
(* and the colour add_sailing_wind_vectors gives a row (lines 156-162).    *)
(***************************************************************************)
\* ABS(x)
abs(x) == IF x < 0 THEN 0 - x ELSE x

\* line 62: MOD(CAST(ROUND(wind_heading_rad * 180 / pi()) AS INTEGER) - 90 + 360, 360)
wind_heading_of(deg) == (deg - 90 + 360) % 360

\* line 63: ABS(MOD(...) - {desired_heading})
heading_diff_of(wind_heading, desired) == abs(wind_heading - desired)

\* lines 156-162: the colour by heading difference
color_of(heading_diff) ==
    IF heading_diff <= 30 THEN "green"
    ELSE IF heading_diff <= 60 THEN "orange"
    ELSE "red"

Sampled(n) == n % HeadingStep = 0 \/ n % (2 * HeadingStep) = 1

\* atan2 gives an angle of -180 to 180 degrees
MathDegrees == {d \in -180..180 : Sampled(d + 180)}

\* --desired-heading, documented as 0-360
DesiredHeadings == {d \in 0..360 : Sampled(d)}

SailingInit ==
    /\ spc = "start"
    /\ heading_deg_math \in MathDegrees
    /\ desired_heading \in DesiredHeadings
    /\ sail_row = NoValue
    /\ color = "none"
    /\ lpc = "idle"
    /\ staged = <<>>
    /\ dest = <<>>
    /\ rpc = "idle"
    /\ now_utc = NoValue
    /\ dt = NoValue
    /\ candidate_cycle = 0
    /\ iter = 0
    /\ probes = <<>>
    /\ failures = {}
    /\ ret = NoValue
    /\ xpc = "idle"
    /\ df_u = <<>> /\ df_v = <<>>
    /\ df = <<>>
    /\ parquet = <<>>
    /\ catalog = {}
    /\ calls = <<>>
    /\ pc = "idle"
    /\ mode = "none"
    /\ start_dt = NoValue /\ end_dt = NoValue
    /\ start_cycle = 0 /\ end_cycle = 0
    /\ cur_dt = NoValue /\ cycle_int = 0 /\ forecast_hour = 0
    /\ disk = {}
    /\ csv_paths = <<>>
    /\ up = 0
    /\ s3 = {}
    /\ table = <<>>
    /\ bound = "none"
    /\ log = <<>>
    /\ failure = "none"
    /\ cleanupFailed = {}

\* lines 60-68, 84-91: the query computes wind_heading and heading_diff of the row
FetchSailingWindData ==
    /\ spc = "start"
    /\ sail_row' = [wind_heading |-> wind_heading_of(heading_deg_math),
                    heading_diff |-> heading_diff_of(wind_heading_of(heading_deg_math),
                                                     desired_heading)]
    /\ spc' = "fetched"
    /\ UNCHANGED <<heading_deg_math, desired_heading, color, notSailing>>

\* lines 149-175: the vector of the row is drawn in the colour of its heading_diff
AddSailingWindVector ==
    /\ spc = "fetched"
    /\ color' = color_of(sail_row.heading_diff)
    /\ spc' = "rendered"
    /\ UNCHANGED <<heading_deg_math, desired_heading, sail_row, notSailing>>

SailingNext ==
    \/ FetchSailingWindData
    \/ AddSailingWindVector

SpecSailing == SailingInit /\ [][SailingNext]_vars

(***************************************************************************)
(* Claims about the resolver.                                              *)
(***************************************************************************)
RunHours == {0, 6, 12, 18}

\* The days from 2023-01-01 to the date of t, counted month by month.
RECURSIVE DaysBeforeMonth(_, _)
DaysBeforeMonth(y, m) == IF m = 1 THEN 0 ELSE DaysBeforeMonth(y, m - 1) + DaysInMonth(y, m - 1)

RECURSIVE DaysBeforeYear(_)
DaysBeforeYear(y) == IF y <= 2023 THEN 0 ELSE DaysBeforeYear(y - 1) + DaysBeforeMonth(y - 1, 12) + 31

DayNumber(t) == DaysBeforeYear(t.y) + DaysBeforeMonth(t.y, t.m) + t.d

ValidDate(t) == t.m \in 1..12 /\ t.d \in 1..DaysInMonth(t.y, t.m) /\ t.minute \in 0..1439

\* The date a %Y%m%d string names.
DateOfYmd(n) == DateTime(n \div 10000, (n \div 100) % 100, n % 100, 0)

\* The %Y%m%d string names the calendar day with the given day number.
IsYmdOfDayNumber(ymd, n) == ValidDate(DateOfYmd(ymd)) /\ DayNumber(DateOfYmd(ymd)) = n

AllProbesFailed == \A i \in 1..Len(probes) : ~probes[i].ok

\* C1: a step back from run 00 lands on 18 of the previous calendar day; a step
\* back from any other run lands on the next-lower run hour of the same day.
C1_PreviousCycleStep ==
    [][iter' = iter + 1 =>
        /\ ValidDate(dt')
        /\ dt'.minute = dt.minute
        /\ IF candidate_cycle = 0
           THEN DayNumber(dt') = DayNumber(dt) - 1 /\ candidate_cycle' = 18
           ELSE /\ DayNumber(dt') = DayNumber(dt)
                /\ candidate_cycle' \in RunHours
                /\ candidate_cycle' < candidate_cycle
                /\ \A c \in RunHours : c < candidate_cycle => c <= candidate_cycle']_vars

\* C1's case: a probe of run 00 failed and the next probe is run 18 of another day.
C1_Witness ==
    \E i \in 1..(Len(probes) - 1) :
        /\ probes[i].cycle = <<0, 0>>
        /\ probes[i + 1].cycle = <<1, 8>>
        /\ probes[i + 1].ymd # probes[i].ymd

\* C2: whatever the probes answer, at most 6 are issued and the call returns a
\* result.
C2_BoundedAndTerminates ==
    /\ [](Len(probes) <= 6)
    /\ <>(rpc = "returned" /\ ret # NoValue)

\* C2's case: every one of the 6 probes failed, each kind of failure among them,
\* and the call has returned.
C2_Witness ==
    /\ rpc = "returned"
    /\ Len(probes) = 6
    /\ AllProbesFailed
    /\ failures = {"status_other", "timeout", "transport_error"}

\* C3: after 6 failed probes the returned date, run and URL are those of the 6th
\* probe.
C3_ExhaustedReturnsLastProbed ==
    (rpc = "returned" /\ Len(probes) = 6 /\ AllProbesFailed) =>
        /\ ret.ymd = probes[6].ymd
        /\ ret.cycle = probes[6].cycle
        /\ ret.url = probes[6].url

\* C4: the first probe is for the date of (now - 2 hours) and the latest run hour
\* not later than its hour; at 05:30 that is run 00 of the same day, and the
\* second probe, if there is one, is run 18 of the day before.
C4_FirstCandidate ==
    LET total == DayNumber(now_utc) * 1440 + now_utc.minute - 120
        baseDay == total \div 1440
        baseMinute == total % 1440
        run == CHOOSE c \in RunHours :
                   /\ 60 * c <= baseMinute
                   /\ \A c2 \in RunHours : 60 * c2 <= baseMinute => c2 <= c
    IN /\ Len(probes) >= 1 =>
            /\ IsYmdOfDayNumber(probes[1].ymd, baseDay)
            /\ probes[1].cycle = <<run \div 10, run % 10>>
            /\ probes[1].url.ymd = probes[1].ymd
            /\ probes[1].url.dir = probes[1].cycle
       /\ (now_utc.minute = 330 /\ Len(probes) >= 1) =>
            /\ IsYmdOfDayNumber(probes[1].ymd, DayNumber(now_utc))
            /\ probes[1].cycle = <<0, 0>>
       /\ (now_utc.minute = 330 /\ Len(probes) >= 2) =>
            /\ IsYmdOfDayNumber(probes[2].ymd, DayNumber(now_utc) - 1)
            /\ probes[2].cycle = <<1, 8>>

\* C4's case: it is 05:30 on the first day of a year, the probe of run 00 failed
\* and a second probe was issued.
C4_Witness ==
    /\ now_utc.minute = 330
    /\ now_utc.m = 1 /\ now_utc.d = 1
    /\ Len(probes) >= 2
    /\ ~probes[1].ok

\* The hours from the start of 2023 to the run a probe asked for.
RunTime(p) == DayNumber(DateOfYmd(p.ymd)) * 24 + ParseInt(p.cycle)

\* C23: every probe but the last has failed, and each probe asks for the run 6
\* hours before the run of the probe before it, whatever the failure was; a
\* probe that succeeded is the last one issued, and the call has returned its
\* date, run and URL; a call that returned after fewer than 6 probes returned on
\* a probe that succeeded; while the loop goes on, one step back has been taken
\* for every failed probe.
C23_StepsBackUntilFirstSuccess ==
    /\ \A i \in 1..Len(probes) :
        /\ ValidDate(DateOfYmd(probes[i].ymd))
        /\ probes[i].cycle \in {<<0, 0>>, <<0, 6>>, <<1, 2>>, <<1, 8>>}
        /\ probes[i].url = gfs_nomads_url_for(probes[i].ymd, probes[i].cycle, "0p25", 0)
        /\ i < Len(probes) =>
            /\ ~probes[i].ok
            /\ RunTime(probes[i + 1]) = RunTime(probes[i]) - 6
    /\ (Len(probes) >= 1 /\ probes[Len(probes)].ok) =>
        /\ rpc = "returned"
        /\ ret = [ymd |-> probes[Len(probes)].ymd, cycle |-> probes[Len(probes)].cycle,
                  url |-> probes[Len(probes)].url]
    /\ (rpc = "returned" /\ Len(probes) < 6) => (Len(probes) >= 1 /\ probes[Len(probes)].ok)
    /\ (rpc = "loop" /\ Len(probes) >= 1) =>
        /\ iter = Len(probes)
        /\ ~probes[Len(probes)].ok
        /\ DayNumber(dt) * 24 + candidate_cycle = RunTime(probes[Len(probes)]) - 6

\* C23's case: a non-200 status, a timeout and a transport error, then a probe
\* that succeeded, on a run of the day before the first candidate's.
C23_Witness ==
    /\ rpc = "returned"
    /\ Len(probes) = 4
    /\ probes[4].ok
    /\ failures = {"status_other", "timeout", "transport_error"}
    /\ probes[4].ymd # probes[1].ymd

(***************************************************************************)
(* Claims about create_firebolt_external_table.                            *)
(***************************************************************************)
LastCall == calls[Len(calls)]

BindingsOf(name) == {e \in catalog : e.name = name}

\* C5: after two calls with the same name, the first with one prefix and the
\* second with another, both returning true, exactly one table of that name
\* exists and it points at the second prefix.
C5_RebindPointsAtSecondPrefix ==
    (/\ Len(calls) >= 2
     /\ calls[Len(calls) - 1].name = LastCall.name
     /\ calls[Len(calls) - 1].url # LastCall.url
     /\ calls[Len(calls) - 1].result
     /\ LastCall.result) =>
        BindingsOf(LastCall.name) = {[name |-> LastCall.name, url |-> LastCall.url]}

\* C6: the call never returns true while the table of that name points at another
\* prefix than the one passed to the call, whatever the drop statement did.
C6_NoStaleBindingOnTrue ==
    (Len(calls) >= 1 /\ LastCall.result) =>
        \A e \in BindingsOf(LastCall.name) : e.url = LastCall.url

\* C7: with the credentials present, a failing create statement makes the call
\* return false; it does not raise.
C7_DdlFailureReturnsFalse ==
    \A i \in 1..Len(calls) :
        (calls[i].env.creds /\ calls[i].env.ddl = "fails") =>
            ~calls[i].result /\ ~calls[i].raised

\* C7's case: a call with credentials whose create statement failed, after a drop
\* that succeeded and after one that failed.
C7_Witness ==
    /\ Len(calls) >= 2
    /\ \A i \in 1..2 : calls[i].env.creds /\ calls[i].env.ddl = "fails"
    /\ calls[1].env.drop = "ok"
    /\ calls[2].env.drop = "fails"

(***************************************************************************)
(* Claims about main.                                                      *)
(***************************************************************************)
Did(op) == \E i \in 1..Len(log) : log[i].op = op

\* The local files named grib_*.grib2 or grib_*.idx.
RawArtifacts(files) == {f \in files : f.prefix = "grib_" /\ f.ext \in {"grib2", "idx"}}

\* C8: in a run whose bind returned false the INSERT is never executed, the
\* table receives nothing, and the run goes on to its return without an exception.
C8_BindFailureSkipsLoad ==
    bound = "false" =>
        /\ ~Did("insert")
        /\ table = <<>>
        /\ pc \in {"cleanup_early", "done"}
        /\ failure = "none"

\* C8's case: a run over a date range (48 units staged) whose bind returned false
\* has returned.
C8_Witness ==
    /\ bound = "false"
    /\ pc = "done"
    /\ mode = "range"
    /\ Len(csv_paths) = 48

\* C9: once the pipeline has started, no run ends, by return or by exception,
\* without cleanup having run.
C9_CleanupOnEveryExit ==
    pc \in {"done", "crashed"} => Did("cleanup")

\* C10 as claimed: after a successful run and after a run that failed at the bind,
\* no file named grib_*.grib2 or grib_*.idx remains.
C10_NoRawArtifactRemains ==
    (pc = "done" /\ bound \in {"true", "false"}) => RawArtifacts(disk) = {}

\* C10: after a successful run and after a run that failed at the bind, the only
\* files named grib_*.grib2 or grib_*.idx that remain are files whose os.remove
\* raised inside cleanup.
C10_OnlyUnremovableArtifactsRemain ==
    (pc = "done" /\ bound \in {"true", "false"}) => RawArtifacts(disk) \subseteq cleanupFailed

\* C10's case: a run failed at the bind after a GRIB file had stayed behind in the
\* loop (its os.remove failed there); cleanup removed it and every index file.
C10_Witness ==
    /\ pc = "done"
    /\ bound = "false"
    /\ \E i \in 1..Len(log) : log[i].op = "remove_grib" /\ ~log[i].what.removed
    /\ cleanupFailed = {}
    /\ RawArtifacts(disk) = {}

WarehouseOps == {"connect", "create_table", "bind", "insert", "drop_ext"}

\* C11: once the download or the extraction of a unit has failed, that failure is
\* the last thing the run did: no later unit is downloaded, nothing was or is
\* uploaded, no statement reaches the warehouse, and the table holds nothing of
\* the run.
C11_UnitFailureAbortsRun ==
    failure \in {"download", "extract"} =>
        /\ pc = "crashed"
        /\ log[Len(log)].op = failure
        /\ log[Len(log)].what.outcome # "ok"
        /\ \A i \in 1..(Len(log) - 1) :
            log[i].op \in {"download", "extract"} => log[i].what.outcome = "ok"
        /\ ~Did("upload")
        /\ \A op \in WarehouseOps : ~Did(op)
        /\ s3 = {}
        /\ table = <<>>

\* C11's case: in a run over a date range the extraction of a unit failed after
\* earlier units had been downloaded and extracted.
C11_Witness ==
    /\ failure = "extract"
    /\ mode = "range"
    /\ Len(csv_paths) >= 6
    /\ pc = "crashed"

\* The run names 00, 06, 12, 18 as main formats them.
RunNames == {<<0, 0>>, <<0, 6>>, <<1, 2>>, <<1, 8>>}

\* The position of a unit in the order (date, run, lead hour).
UnitKey(u) == <<DayNumber(DateOfYmd(u.date)), ParseInt(u.cycle), u.fh>>

LexLess(a, b) ==
    \/ a[1] < b[1]
    \/ a[1] = b[1] /\ a[2] < b[2]
    \/ a[1] = b[1] /\ a[2] = b[2] /\ a[3] < b[3]

\* The units the run has downloaded, and those it has extracted.
UnitsDone(op) == {log[i].what.unit : i \in {j \in 1..Len(log) : log[j].op = op}}

\* The loop over the units has run to its end.
UnitLoopFinished ==
    /\ pc \notin {"idle", "start", "download", "extract", "remove_grib", "exit1",
                  "returned_latest_only"}
    /\ failure \notin {"download", "extract"}

\* C12: over a date range the units are downloaded, and extracted, in strictly
\* increasing order of (date, run, lead hour): each download and each extraction,
\* when it happens, is of a unit after every unit downloaded or extracted before
\* it. Every one is a unit of a valid
\* date of the range, a run of 00, 06, 12, 18 and a lead hour of 0..5; and when
\* the loop has ended every such unit has been downloaded and then extracted.
C12_RangeOrderAndCoverage ==
    mode = "range" =>
        /\ (Len(log) >= 1 /\ log[Len(log)].op \in {"download", "extract"}) =>
            \A i \in 1..(Len(log) - 1) :
                log[i].op = log[Len(log)].op =>
                    LexLess(UnitKey(log[i].what.unit), UnitKey(log[Len(log)].what.unit))
        /\ \A u \in UnitsDone("download") :
            /\ ValidDate(DateOfYmd(u.date))
            /\ DayNumber(DateOfYmd(u.date)) \in DayNumber(start_dt)..DayNumber(end_dt)
            /\ u.cycle \in RunNames
            /\ u.fh \in 0..5
        /\ UnitsDone("extract") \subseteq UnitsDone("download")
        /\ UnitLoopFinished =>
            /\ \A n \in DayNumber(start_dt)..DayNumber(end_dt), c \in RunNames, f \in 0..5 :
                \E u \in UnitsDone("extract") :
                    /\ DayNumber(DateOfYmd(u.date)) = n
                    /\ u.cycle = c
                    /\ u.fh = f
            /\ \A i \in 1..Len(log) : log[i].op = "extract" =>
                /\ i > 1
                /\ log[i - 1].op = "download"
                /\ log[i - 1].what.unit = log[i].what.unit

\* C12's case: the range 2023-12-31 to 2024-01-01 has been processed to its end,
\* 48 units across the turn of the year.
C12_Witness ==
    /\ mode = "range"
    /\ UnitLoopFinished
    /\ start_dt # end_dt
    /\ Cardinality(UnitsDone("extract")) = 48

LastEvent == log[Len(log)]

\* How many events of the kind the run has logged.
Count(op) == Cardinality({i \in 1..Len(log) : log[i].op = op})

\* The normalized artifacts on local disk.
Normalized(files) == {f \in files : f.ext = "parquet"}

\* C13 as claimed: when a download begins every unit extracted before it has been
\* staged, and the normalized artifacts of at most one unit are on local disk.
C13_EachUnitStagedBeforeNextDownload ==
    /\ (Len(log) >= 1 /\ LastEvent.op = "download") => Count("upload") = Len(csv_paths)
    /\ Cardinality(Normalized(disk)) <= 1

\* C13: each unit is downloaded and extracted before the next download begins;
\* nothing is staged before the last unit has been extracted, and until then the
\* normalized artifacts of all extracted units are on local disk together; then
\* the batches are uploaded one by one in the order they were extracted.
C13_AllUnitsExtractedThenStaged ==
    /\ (Len(log) >= 1 /\ LastEvent.op = "download") =>
        /\ UnitsDone("download") \ {LastEvent.what.unit} = UnitsDone("extract")
        /\ Len(csv_paths) = Count("extract")
    /\ (Len(log) >= 1 /\ LastEvent.op \in {"download", "extract"}) => ~Did("upload")
    /\ ~Did("upload") => \A k \in 1..Len(csv_paths) : csv_paths[k] \in Normalized(disk)
    /\ (Len(log) >= 1 /\ LastEvent.op = "upload") =>
        /\ LastEvent.what.key.name = csv_paths[Count("upload")]
        /\ \A k \in (Count("upload") + 1)..Len(csv_paths) : csv_paths[k] \in disk

\* C13's case: the 48 units of a date range have been extracted, the first batch
\* has been uploaded, and the second is about to be.
C13_Witness ==
    /\ pc = "upload"
    /\ Len(csv_paths) = 48
    /\ Count("upload") = 1
    /\ Cardinality(Normalized(disk)) >= 47

\* The raw grid files on local disk.
RawGrid(files) == {f \in files : f.prefix = "grib_" /\ f.ext = "grib2"}

\* The files whose removal of the kind raised and was passed over.
FailedRemovals(op) ==
    {log[i].what.file : i \in {j \in 1..Len(log) : log[j].op = op /\ ~log[j].what.removed}}

\* C14 as claimed: at every point of a run at most one raw grid file is on local
\* disk.
C14_AtMostOneRawGridFile == Cardinality(RawGrid(disk)) <= 1

\* C14: at every point of a run at most one raw grid file whose removal has not
\* failed is on local disk, and none is when the next download is about to begin
\* and after the loop over the units has ended.
C14_AtMostOneRemovableRawGridFile ==
    /\ Cardinality(RawGrid(disk) \ FailedRemovals("remove_grib")) <= 1
    /\ (pc = "download" \/ UnitLoopFinished) =>
        RawGrid(disk) \subseteq FailedRemovals("remove_grib")

\* C14's case: the removal of the first unit's raw grid file failed, later units
\* were extracted and their files removed, and another unit has been downloaded.
C14_Witness ==
    /\ pc = "extract"
    /\ Len(csv_paths) >= 2
    /\ Cardinality(FailedRemovals("remove_grib")) = 1
    /\ Cardinality(RawGrid(disk)) = 2

\* C15: after an upload that failed the local artifact of that batch no longer
\* exists, as it does not after one that succeeded.
C15_ArtifactGoneAfterUploadAttempt ==
    \A i \in 1..Len(log) :
        (log[i].op = "upload" /\ ~log[i].what.ok /\ (i < Len(log) \/ pc = "crashed")) =>
            log[i].what.key.name \notin disk

\* The steps that go to the network: the probes of the resolver, the downloads,
\* the uploads and the statements sent to the warehouse.
NetworkOps == {"resolve", "download", "upload"} \cup WarehouseOps

MissingCredentialFailures == {"no_account", "no_client_credentials", "no_storage_credentials"}

\* C16: a run that fails for a missing credential has issued no probe, download,
\* upload or warehouse statement before the call that raised that failure.
C16_MissingCredentialFailsBeforeNetwork ==
    failure \in MissingCredentialFailures =>
        \A i \in 1..(Len(log) - 1) : log[i].op \notin NetworkOps

\* The objects the run has put into the bucket.
Uploaded == {log[i].what.key : i \in {j \in 1..Len(log) : log[j].op = "upload" /\ log[j].what.ok}}

\* C17: when a run whose load succeeded has ended, none of the objects it
\* uploaded is left in object storage.
C17_StagedObjectsDeletedAfterLoad ==
    (pc = "done" /\ bound = "true" /\ Len(table) >= 1) => Uploaded \cap s3 = {}

\* C19: with a date omitted the run downloads units of the resolved date and the
\* resolved run only, from the URLs of that date and run, lead hours 0 to 5 in
\* order, and when the loop has ended it has downloaded and extracted exactly
\* those six units, once each.
C19_OnlyResolvedCycle ==
    mode = "latest" =>
        /\ log[1].op = "resolve"
        /\ \A i \in 1..Len(log) : log[i].op = "download" =>
            /\ log[i].what.unit.date = log[1].what.ymd
            /\ log[i].what.unit.cycle = log[1].what.cycle
            /\ log[i].what.unit.fh = Cardinality({j \in 1..(i - 1) : log[j].op = "download"})
            /\ log[i].what.unit.fh \in 0..5
            /\ log[i].what.url.ymd = log[1].what.ymd
            /\ log[i].what.url.dir = log[1].what.cycle
            /\ log[i].what.url.file = log[1].what.cycle
            /\ log[i].what.url.f = <<0, 0, log[i].what.unit.fh>>
        /\ UnitsDone("extract") \subseteq UnitsDone("download")
        /\ UnitLoopFinished =>
            /\ UnitsDone("extract") =
                 {[date |-> log[1].what.ymd, cycle |-> log[1].what.cycle, fh |-> f] : f \in 0..5}
            /\ Count("download") = 6
            /\ Count("extract") = 6

\* C19's case: the resolver returned run 18 of 2024-02-29 and the loop over its
\* units has ended.
C19_Witness ==
    /\ mode = "latest"
    /\ log[1].what = [ymd |-> 20240229, cycle |-> <<1, 8>>]
    /\ UnitLoopFinished
    /\ Count("extract") = 6

\* The place of a step in the order: uploads, connection, ensure-table, bind,
\* load, drop of the external table, cleanup.
StageRank(op) ==
    CASE op \in {"upload", "remove_parquet"} -> 1
      [] op = "connect" -> 2
      [] op = "create_table" -> 3
      [] op = "bind" -> 4
      [] op = "insert" -> 5
      [] op = "drop_ext" -> 6
      [] op = "cleanup" -> 7
      [] OTHER -> 0

\* C24: every step of the warehouse phase comes after all steps of the earlier
\* stages and is taken once: when the table is ensured every batch has been
\* uploaded; the INSERT is executed at most once, after a CREATE TABLE that
\* succeeded and a bind of the run that returned true; the drop of the external
\* table comes after the INSERT and cleanup comes last.
C24_WarehouseStepsInOrder ==
    /\ (Len(log) >= 1 /\ StageRank(LastEvent.op) >= 1) =>
        \A i \in 1..(Len(log) - 1) :
            /\ StageRank(log[i].op) <= StageRank(LastEvent.op)
            /\ StageRank(LastEvent.op) >= 2 => StageRank(log[i].op) < StageRank(LastEvent.op)
    /\ (Len(log) >= 1 /\ LastEvent.op = "create_table") =>
        /\ Count("upload") = Len(csv_paths)
        /\ \A k \in 1..Len(csv_paths) : UploadKey(csv_paths[k]) \in Uploaded
    /\ Count("insert") <= 1
    /\ Did("insert") =>
        /\ bound = "true"
        /\ \E i \in 1..Len(log) : log[i].op = "create_table" /\ log[i].what
        /\ \E i \in 1..Len(log) :
            log[i].op = "bind" /\ log[i].what.result /\ ~log[i].what.raised
    /\ Did("drop_ext") => \E i \in 1..Len(log) : log[i].op = "insert" /\ log[i].what

\* C24's case: a run over a date range has uploaded its 48 batches, ensured the
\* table, bound, loaded, dropped the external table, cleaned up and returned.
C24_Witness ==
    /\ pc = "done"
    /\ Count("upload") = 48
    /\ Did("create_table")
    /\ bound = "true"
    /\ Count("insert") = 1
    /\ Did("drop_ext")
    /\ LastEvent.op = "cleanup"

\* C25: the batch of each unit is written under a name that carries the date,
\* the run and the lead hour of the unit and differs from the name of every unit
\* extracted before it; each batch is uploaded to a key of its own below the
\* prefix of the run, so the bucket holds one object per successful upload.
C25_DistinctKeyPerUnit ==
    /\ (Len(log) >= 1 /\ LastEvent.op = "extract" /\ LastEvent.what.outcome = "ok") =>
        /\ Len(csv_paths) = Cardinality(UnitsDone("extract"))
        /\ csv_paths[Len(csv_paths)].stem[1] = LastEvent.what.unit.date
        /\ ParseInt(csv_paths[Len(csv_paths)].stem[2]) = ParseInt(LastEvent.what.unit.cycle)
        /\ ParseInt(csv_paths[Len(csv_paths)].stem[3]) = LastEvent.what.unit.fh
        /\ \A k \in 1..(Len(csv_paths) - 1) : csv_paths[k] # csv_paths[Len(csv_paths)]
    /\ (Len(log) >= 1 /\ LastEvent.op = "upload") =>
        /\ LastEvent.what.key.bucket = "bucket"
        /\ LastEvent.what.key.prefix = S3Url.prefix
        /\ \A i \in 1..(Len(log) - 1) :
            log[i].op = "upload" => log[i].what.key # LastEvent.what.key
    /\ Cardinality(s3) = Cardinality({i \in 1..Len(log) : log[i].op = "upload" /\ log[i].what.ok})

\* C25's case: the 48 units of a date range, two dates with the same runs and
\* lead hours, have been uploaded to 48 keys.
C25_Witness ==
    /\ mode = "range"
    /\ Count("upload") = 48
    /\ Cardinality(s3) = 48
    /\ Cardinality(UnitsDone("extract")) = 48

(***************************************************************************)
(* Claims about successive runs.                                           *)
(***************************************************************************)
\* C18: over successive successful runs on the same table, bucket and prefix, no
\* staged object loaded by an earlier run is loaded again by a later run.
C18_NoRecordInsertedTwice ==
    \A i, j \in 1..Len(table) : i < j => table[i] \cap table[j] = {}

(***************************************************************************)
(* Claims about the extractor.                                             *)
(***************************************************************************)
\* The keys of the two component series together.
UnionKeys == KeysOfFrame(df_u) \cup KeysOfFrame(df_v)

\* The component the series has for the key: its value, or nothing.
ComponentU(k) == {df_u[j].u10 : j \in {i \in DOMAIN df_u : KeyOf(df_u[i]) = k}}
ComponentV(k) == {df_v[j].v10 : j \in {i \in DOMAIN df_v : KeyOf(df_v[i]) = k}}

\* The cell holds the component of the series for the key, and when the series
\* has none the cell is null: not zero, not any number.
CellIs(cell, component) ==
    IF component = {} THEN cell = NaN /\ cell # Float(0) /\ Len(cell) = 0
    ELSE component = {cell} /\ Len(cell) = 1

\* The key of a written record; its date is the date of the time of the key.
WrittenKey(row) == <<row.latitude, row.longitude, row.obs_date>>

\* C20: the joined frame, and the records written from it, hold exactly one
\* record per key of the union of the keys of the two series, each with the
\* component values of its key, a component the series lacks being null.
C20_OuterJoinKeepsEveryKey ==
    /\ xpc = "merged" =>
        /\ Len(df) = Cardinality(UnionKeys)
        /\ {KeyOf(df[i]) : i \in DOMAIN df} = UnionKeys
        /\ \A i \in DOMAIN df :
            /\ CellIs(df[i].u10, ComponentU(KeyOf(df[i])))
            /\ CellIs(df[i].v10, ComponentV(KeyOf(df[i])))
    /\ xpc = "written" =>
        /\ Len(parquet) = Cardinality(UnionKeys)
        /\ {WrittenKey(parquet[i]) : i \in DOMAIN parquet} =
             {<<k[1], k[2], <<k[3].y, k[3].m, k[3].d>>>> : k \in UnionKeys}
        /\ \A i \in DOMAIN parquet : \A k \in UnionKeys :
            (k[1] = parquet[i].latitude /\ k[2] = parquet[i].longitude) =>
                /\ CellIs(parquet[i].wind_u, ComponentU(k))
                /\ CellIs(parquet[i].wind_v, ComponentV(k))

\* C20's case: two series on disjoint points, one of them with a calm (zero)
\* component, have been joined and written.
C20_Witness ==
    /\ xpc = "written"
    /\ df_u # <<>>
    /\ df_v # <<>>
    /\ KeysOfFrame(df_u) \cap KeysOfFrame(df_v) = {}
    /\ \E i \in DOMAIN df_u : df_u[i].u10 = Float(0)
    /\ Len(parquet) = 2

(***************************************************************************)
(* Claims about the load.                                                  *)
(***************************************************************************)
\* The minutes from the start of 2023 to the timestamp.
MinuteNumber(t) == DayNumber(t) * 1440 + t.minute

\* The staged row of the end-to-end scenario.
ScenarioRow ==
    [latitude |-> 40, longitude |-> -75, obs_date |-> <<2024, 1, 1>>,
     obs_hour |-> <<0>>, forecast_hour |-> <<3>>, wind_u |-> <<3>>, wind_v |-> <<4>>]

\* C21: the load inserts one destination row per staged row; its forecast_ts is
\* the staged date plus obs_hour + forecast_hour hours, its wind components are
\* those of the staged row, the square of its wind_speed is the sum of their
\* squares, and its point is (longitude, latitude); the scenario row yields
\* 2024-01-01T03:00:00, speed 5 and the point (-75, 40).
C21_LoadDerivesOneRowPerStagedRow ==
    lpc = "loaded" =>
        /\ Len(dest) = Len(staged)
        /\ \A i \in 1..Len(staged) :
            /\ dest[i].wind_u = staged[i].wind_u
            /\ dest[i].wind_v = staged[i].wind_v
            /\ dest[i].location.point = <<staged[i].longitude, staged[i].latitude>>
            /\ (Len(staged[i].obs_hour) = 1 /\ Len(staged[i].forecast_hour) = 1) =>
                /\ Len(dest[i].forecast_ts) = 1
                /\ ValidDate(dest[i].forecast_ts[1])
                /\ MinuteNumber(dest[i].forecast_ts[1]) =
                     MinuteNumber(DateTime(staged[i].obs_date[1], staged[i].obs_date[2],
                                           staged[i].obs_date[3], 0))
                     + 60 * (staged[i].obs_hour[1] + staged[i].forecast_hour[1])
            /\ (Len(staged[i].wind_u) = 1 /\ Len(staged[i].wind_v) = 1) =>
                /\ Len(dest[i].wind_speed) = 1
                /\ dest[i].wind_speed[1] >= 0
                /\ dest[i].wind_speed[1] * dest[i].wind_speed[1] =
                     staged[i].wind_u[1] * staged[i].wind_u[1]
                     + staged[i].wind_v[1] * staged[i].wind_v[1]
            /\ staged[i] = ScenarioRow =>
                /\ dest[i].forecast_ts = <<DateTime(2024, 1, 1, 180)>>
                /\ dest[i].wind_speed = <<5>>
                /\ dest[i].location.point = <<-75, 40>>

\* C21's case: the scenario row and a row whose hours reach the next day (and
\* the next year) have been loaded.
C21_Witness ==
    /\ lpc = "loaded"
    /\ Len(staged) = 2
    /\ staged[1] = ScenarioRow
    /\ staged[2].obs_date = <<2023, 12, 31>>
    /\ staged[2].obs_hour = <<18>>
    /\ staged[2].forecast_hour = <<6>>
    /\ dest[2].forecast_ts = <<DateTime(2024, 1, 1, 0)>>

(***************************************************************************)
(* Claims about the sailing map.                                           *)
(***************************************************************************)
\* The distance of two headings on the compass circle.
AngularDistance(a, b) ==
    LET x == a % 360
        y == b % 360
        d == IF x >= y THEN x - y ELSE y - x
    IN IF d <= 180 THEN d ELSE 360 - d

\* C22: the vector of a row is green exactly when its wind heading is within 30
\* degrees of the desired heading on the compass circle, orange when it is more
\* than 30 and at most 60 degrees away, red when it is more than 60 degrees away.
C22_ColourByAngularDistance ==
    spc = "rendered" =>
        /\ sail_row.wind_heading \in 0..359
        /\ color = IF AngularDistance(sail_row.wind_heading, desired_heading) <= 30 THEN "green"
                   ELSE IF AngularDistance(sail_row.wind_heading, desired_heading) <= 60
                        THEN "orange"
                   ELSE "red"

====
